---- MODULE Spec2Model ----
(***************************************************************************)
(* Model of the luziadev/sdk client library.                               *)
(*                                                                         *)
(*   Spec       the streaming session (src/src/websocket.ts): one          *)
(*              LuziaWebSocket instance, its transport handles, its timers *)
(*              and the caller.                                            *)
(*   SpecRetry  the request pipeline (src/src/retry.ts, src/src/client.ts, *)
(*              src/src/errors.ts): one withRetry / request() call.        *)
(*   SpecAuto   the session under its default options, with the history of *)
(*              the caller's subscriptions.                                *)
(*   SpecPure   one call of isRetryableError (src/src/errors.ts).          *)
(*   SpecDelay  one call of calculateRetryDelay (src/src/retry.ts).        *)
(*   SpecResponse  one call of createErrorFromResponse                     *)
(*              (src/src/errors.ts).                                       *)
(*   SpecAttempt  the _doRequest calls of one client (src/src/client.ts),  *)
(*              with the deadline timer and the stored rate-limit info.    *)
(*   SpecStatus  one call of isRetryableStatus (src/src/retry.ts).         *)
(*   SpecSymbol  calls of symbolToUrl / symbolFromUrl                      *)
(*              (src/src/client.ts).                                       *)
(*   SpecReconnectDelay  the delay computation of scheduleReconnect        *)
(*              (src/src/websocket.ts).                                    *)
(***************************************************************************)
EXTENDS Integers, Sequences, FiniteSets, TLC

\* ------------------------------------------------------------------ bounds
\* transport handles that can be opening or open at once
MaxHandles == 2
\* setTimeout callbacks that can be pending at once
MaxTimers == 2
\* cap on reconnectAttempts when maxReconnectAttempts = 0 (unbounded)
MaxAttempts == 2
\* longest channel array passed to subscribe() / unsubscribe()
MaxChannelArgs == 1

Channels == {"A", "B"}
CloseCodes == {1000, 1006}

\* ------------------------------------------------------- streaming session
VARIABLES
  state,                  \* LuziaWebSocket._state
  ws,                     \* LuziaWebSocket.ws: "null", or the transport state
                          \* of the handle it refers to: "opening" | "open" |
                          \* "closed"
  stale,                  \* handles this.ws no longer refers to that are
                          \* opening or open with their callbacks still set:
                          \* how many in each transport state
  reconnectAttempts,      \* LuziaWebSocket.reconnectAttempts
  reconnectTimer,         \* LuziaWebSocket.reconnectTimer is set (the timer
                          \* it refers to is then pending)
  lostTimers,             \* pending setTimeout callbacks of scheduleReconnect
                          \* that reconnectTimer no longer refers to
  heartbeatTimer,         \* LuziaWebSocket.heartbeatTimer is set
  pendingSubscriptions,   \* Set<string>, in insertion order
  activeSubscriptions,    \* Set<string>
  options,                \* LuziaWebSocket.options
  emitted,                \* events handed to listeners by the last step
  sent,                   \* ws.send() calls made by the last step
  last,                   \* the method or callback the last step ran:
                          \* "new" after construction, "idle" once it has
                          \* returned
  disconnectCalled,       \* history: disconnect() has been called
  requested,              \* history (SpecAuto): channels passed to
                          \* subscribe() so far
  wanted,                 \* history (SpecAuto): channels the caller
                          \* subscribed and has not unsubscribed since
  dropped,                \* history (SpecAuto): the wanted channels that were
                          \* active when a connected transport last closed,
                          \* less those unsubscribed since
  healing,                \* history (SpecAuto): a connected transport closed
                          \* and no handshake has arrived since
  escaped                 \* observable: an exception left the method or
                          \* callback that ran in the last step

\* ------------------------------------------------------- request pipeline
VARIABLES
  pc,                     \* position of the withRetry call
  mode,                   \* "withRetry": any fn; "request": fn = _doRequest
  retryOptions,           \* the options argument of withRetry
  resolvedOptions,        \* withRetry: resolveRetryOptions(options)
  attempt,                \* withRetry: loop variable
  lastError,              \* withRetry: lastError
  calls,                  \* history: number of times fn has been invoked
  thrown,                 \* history: what each failed invocation threw
  returned,               \* history: what each successful invocation
                          \* returned (the status of the response read)
  onRetryCalls,           \* history: the context of each onRetry call
  transported,            \* history (request): the status each transport
                          \* call completed with, 0 for a rejection
  outcome                 \* how the withRetry promise settled

\* ------------------------------------------------------ exported functions
VARIABLES
  arg,                    \* the argument of a call of an exported function
  result                  \* what the call returned, NoResult before it

\* ------------------------------------------------- one request attempt
VARIABLES
  apc,                    \* position of the _doRequest call
  deadline,               \* the setTimeout of _doRequest: "none", "pending",
                          \* "fired" or "cleared"
  timeout,                \* this.timeout
  received,               \* the response fetchImpl resolved with
  lastRateLimitInfo,      \* this._lastRateLimitInfo
  attemptResult,          \* what the _doRequest call returned or threw
  requests                \* number of _doRequest calls started

wsVars == <<state, ws, stale, reconnectAttempts, reconnectTimer,
            lostTimers, heartbeatTimer, pendingSubscriptions,
            activeSubscriptions, options, emitted, sent, last,
            disconnectCalled, requested, wanted, dropped, healing,
            escaped>>
retryVars == <<pc, mode, retryOptions, resolvedOptions, attempt, lastError,
               calls, thrown, returned, onRetryCalls, transported, outcome>>
pureVars == <<arg, result>>
clientVars == <<apc, deadline, timeout, received, lastRateLimitInfo,
                attemptResult, requests>>
vars == <<wsVars, retryVars, pureVars, clientVars>>

\* the fields of the session object itself
sessionVars == <<state, ws, stale, reconnectAttempts, reconnectTimer,
                 lostTimers, heartbeatTimer, pendingSubscriptions,
                 activeSubscriptions, options>>

\* ---------------------------------------------------------------- helpers
SeqToSet(q) == {q[i] : i \in 1..Len(q)}

RECURSIVE SeqRemove(_, _)
SeqRemove(q, x) ==
  IF q = <<>> THEN <<>>
  ELSE IF Head(q) = x THEN SeqRemove(Tail(q), x)
       ELSE <<Head(q)>> \o SeqRemove(Tail(q), x)

ChannelArgs == UNION {[1..n -> Channels] : n \in 1..MaxChannelArgs}

Event(type, code, channel, att, closeCode) ==
  [type |-> type, code |-> code, channel |-> channel, attempt |-> att,
   closeCode |-> closeCode]

\* the session as one record, so that methods compose as in the source
Cur ==
  [state |-> state, ws |-> ws, stale |-> stale,
   reconnectAttempts |-> reconnectAttempts, reconnectTimer |-> reconnectTimer,
   lostTimers |-> lostTimers, heartbeatTimer |-> heartbeatTimer,
   pendingSubscriptions |-> pendingSubscriptions,
   activeSubscriptions |-> activeSubscriptions, options |-> options,
   emitted |-> <<>>, sent |-> <<>>, overflow |-> FALSE,
   listenerThrows |-> FALSE, threw |-> FALSE, onConnected |-> <<>>]

\* the session at the start of a step in which the first listener of every
\* event throws (`throws`) or returns
Calling(throws) == [Cur EXCEPT !.listenerThrows = throws]

\* the history variables; `track` is FALSE in Spec, which leaves them alone
History(track, op, channels) ==
  /\ disconnectCalled' = (disconnectCalled \/ op = "disconnect")
  /\ requested' = IF track /\ op \in {"subscribe", "connected"}
                  THEN requested \cup channels
                  ELSE requested
  /\ IF ~track THEN UNCHANGED <<wanted, dropped, healing>>
     ELSE CASE op = "subscribe" ->
                 /\ wanted' = wanted \cup channels
                 /\ UNCHANGED <<dropped, healing>>
            [] op = "unsubscribe" ->
                 /\ wanted' = wanted \ channels
                 /\ dropped' = dropped \ channels
                 /\ UNCHANGED healing
            [] op = "close" /\ state = "connected" /\ options.autoReconnect ->
                 /\ dropped' = wanted \cap activeSubscriptions
                 /\ healing' = TRUE
                 /\ UNCHANGED wanted
            [] op = "unsubscribed" ->
                 /\ dropped' = dropped \ channels
                 /\ UNCHANGED <<wanted, healing>>
            [] op = "connected" ->
                 /\ wanted' = wanted \cup channels
                 /\ dropped' = {}
                 /\ healing' = FALSE
            [] op = "disconnect" ->
                 /\ dropped' = {}
                 /\ healing' = FALSE
                 /\ UNCHANGED wanted
            [] OTHER -> UNCHANGED <<wanted, dropped, healing>>

\* no method or callback of the session is running (each runs to completion)
Idle == last \in {"new", "idle"}

Commit(s, op) ==
  /\ Idle
  /\ ~s.overflow
  /\ state' = s.state
  /\ ws' = s.ws
  /\ stale' = s.stale
  /\ reconnectAttempts' = s.reconnectAttempts
  /\ reconnectTimer' = s.reconnectTimer
  /\ lostTimers' = s.lostTimers
  /\ heartbeatTimer' = s.heartbeatTimer
  /\ pendingSubscriptions' = s.pendingSubscriptions
  /\ activeSubscriptions' = s.activeSubscriptions
  /\ options' = s.options
  /\ emitted' = s.emitted
  /\ sent' = s.sent
  /\ last' = op
  /\ escaped' = s.threw
  /\ UNCHANGED <<retryVars, pureVars, clientVars>>

\* Set.prototype.add on the insertion-ordered pending set
SetAdd(q, x) == IF x \in SeqToSet(q) THEN q ELSE Append(q, x)

RECURSIVE AddAll(_, _)
AddAll(q, chs) ==
  IF chs = <<>> THEN q ELSE AddAll(SetAdd(q, Head(chs)), Tail(chs))

RECURSIVE DeleteAll(_, _)
DeleteAll(q, chs) ==
  IF chs = <<>> THEN q ELSE DeleteAll(SeqRemove(q, Head(chs)), Tail(chs))

\* ------------------------------------------------------- session methods
\* this.ws.send(...) behind a `this.ws` / `this.ws?.` test
send(s, type, channels) ==
  IF s.threw \/ s.ws = "null" THEN s
  ELSE [s EXCEPT !.sent = Append(@, [to |-> s.ws, type |-> type,
                                     channels |-> channels])]

subscribe(s, channels) ==
  LET s1 == [s EXCEPT !.pendingSubscriptions = AddAll(@, channels)]
  IN IF s1.state = "connected" THEN send(s1, "subscribe", channels) ELSE s1

\* the callbacks registered for an event, in the order of registration;
\* the first one is the listener that may throw
Listeners == <<1, 2>>

\* for (const cb of callbacks) { try { cb(data) } catch {} }: the listeners
\* invoked, a thrown exception being swallowed
RECURSIVE Invoke(_, _)
Invoke(callbacks, throws) ==
  IF callbacks = <<>> THEN {}
  ELSE {Head(callbacks)} \cup Invoke(Tail(callbacks), throws)

\* the channels the second listener of an event passes to ws.subscribe():
\* those of the application's `connected` listener (`onConnected`), if any
Called(s, type) == IF type = "connected" THEN s.onConnected ELSE <<>>

\* the body of the second listener, run while the event is emitted
Listen(s, type) ==
  IF Called(s, type) # <<>> THEN subscribe(s, Called(s, type)) ELSE s

\* mutant: emit without the try/catch around each callback
emit_noCatch(s, e) ==
  IF s.threw THEN s
  ELSE IF s.listenerThrows
       THEN [s EXCEPT !.emitted = Append(@, e @@ [invoked |-> {Head(Listeners)},
                                                 threw |-> TRUE,
                                                 called |-> <<>>]),
                      !.threw = TRUE]
       ELSE Listen([s EXCEPT !.emitted =
                               Append(@, e @@ [invoked |-> SeqToSet(Listeners),
                                               threw |-> FALSE,
                                               called |-> Called(s, e.type)])],
                   e.type)

\* an event gets the listeners invoked for it (`invoked`), whether one of
\* them threw (`threw`) and the channels one of them subscribed (`called`);
\* a statement after an exception (s.threw) does not run
emit(s, e) ==
  IF s.threw THEN s
  ELSE Listen([s EXCEPT !.emitted =
                          Append(@, e @@ [invoked |-> Invoke(Listeners,
                                                             s.listenerThrows),
                                          threw |-> s.listenerThrows,
                                          called |-> Called(s, e.type)])],
              e.type)

stopHeartbeat(s) == [s EXCEPT !.heartbeatTimer = FALSE]

startHeartbeat(s) ==
  IF s.options.heartbeatIntervalMs <= 0 THEN s
  ELSE [stopHeartbeat(s) EXCEPT !.heartbeatTimer = TRUE]

Bit(b) == IF b THEN 1 ELSE 0

Live(w) == w \in {"opening", "open"}

\* pending reconnect timers, and handles that can still run a callback
PendingTimers(s) == Bit(s.reconnectTimer) + s.lostTimers
LiveHandles(s) == Bit(Live(s.ws)) + s.stale.opening + s.stale.open

scheduleReconnect(s) ==
  IF s.threw \/ ~s.options.autoReconnect THEN s
  ELSE IF /\ s.options.maxReconnectAttempts > 0
          /\ s.reconnectAttempts >= s.options.maxReconnectAttempts
       THEN emit(s, Event("error", "MAX_RECONNECT", "", 0, 0))
       ELSE IF \/ PendingTimers(s) >= MaxTimers
               \/ s.reconnectAttempts >= MaxAttempts
            THEN [s EXCEPT !.overflow = TRUE]
            ELSE LET s1 == [s EXCEPT !.reconnectAttempts = @ + 1,
                                     !.state = "reconnecting"]
                     s2 == emit(s1, Event("reconnecting", "", "",
                                          s1.reconnectAttempts, 0))
                 IN \* this.reconnectTimer = setTimeout(...): a timer the
                    \* field referred to stays pending, unreferenced
                    IF s2.threw THEN s2
                    ELSE [s2 EXCEPT !.lostTimers = @ + Bit(s2.reconnectTimer),
                                    !.reconnectTimer = TRUE]

doConnect(s, ctorThrows) ==
  IF ctorThrows
  THEN scheduleReconnect(emit(s, Event("error", "CONNECTION_FAILED", "", 0, 0)))
  ELSE IF LiveHandles(s) >= MaxHandles THEN [s EXCEPT !.overflow = TRUE]
       ELSE \* this.ws = new WSImpl(...): a live handle the field referred
            \* to keeps its callbacks
            LET s1 == IF Live(s.ws) THEN [s EXCEPT !.stale[s.ws] = @ + 1]
                      ELSE s
            IN [s1 EXCEPT !.ws = "opening"]

connect(s, ctorThrows) ==
  IF s.state = "connected" \/ s.state = "connecting" THEN s
  ELSE doConnect([s EXCEPT !.state = "connecting"], ctorThrows)

cleanup(s) ==
  LET s1 == stopHeartbeat(s)
      s2 == IF s1.reconnectTimer
            THEN [s1 EXCEPT !.reconnectTimer = FALSE]
            ELSE s1
  IN IF s2.ws # "null" THEN [s2 EXCEPT !.ws = "null"] ELSE s2

\* mutant: disconnect() that forgets to switch auto-reconnect off
disconnect_keepsAutoReconnect(s) ==
  [cleanup(s) EXCEPT !.state = "disconnected"]

disconnect(s) ==
  [cleanup([s EXCEPT !.options.autoReconnect = FALSE])
     EXCEPT !.state = "disconnected"]

unsubscribe(s, channels) ==
  LET s1 == [s EXCEPT !.pendingSubscriptions = DeleteAll(@, channels),
                      !.activeSubscriptions = @ \ SeqToSet(channels)]
  IN IF s1.state = "connected" THEN send(s1, "unsubscribe", channels) ELSE s1

ping(s) == IF s.state = "connected" THEN send(s, "ping", <<>>) ELSE s

\* mutant: onopen that takes the transport's open for the handshake
onopen_setsConnected(s) == [s EXCEPT !.state = "connected"]

\* ws.onopen: waits for the server's `connected` message
onopen(s) == s

\* mutant: onclose that reschedules whatever the state was
onclose_ignoresWasConnected(s, code) ==
  LET s1 == stopHeartbeat(s)
      s2 == emit([s1 EXCEPT !.state = "disconnected"],
                 Event("disconnected", "", "", 0, code))
  IN IF s2.options.autoReconnect THEN scheduleReconnect(s2) ELSE s2

onclose(s, code) ==
  LET s1 == stopHeartbeat(s)
      wasConnected == s1.state = "connected"
      s2 == emit([s1 EXCEPT !.state = "disconnected"],
                 Event("disconnected", "", "", 0, code))
  IN IF wasConnected /\ s2.options.autoReconnect
     THEN scheduleReconnect(s2)
     ELSE s2

\* server messages: msg.type, with the channel of subscribed / unsubscribed;
\* "malformed" is a payload JSON.parse rejects
ServerMessages ==
  {[type |-> t, channel |-> ""] :
      t \in {"connected", "ticker", "error", "pong", "malformed"}}
  \cup {[type |-> t, channel |-> c] :
      t \in {"subscribed", "unsubscribed"}, c \in Channels}

\* mutant: a `subscribed` message that also takes the channel out of the
\* pending set
handleMessage_subscribedMoves(s, msg) ==
  CASE msg.type = "malformed" -> s
    [] msg.type = "connected" ->
         LET s1 == startHeartbeat([s EXCEPT !.state = "connected",
                                            !.reconnectAttempts = 0])
             s2 == emit(s1, Event("connected", "", "", 0, 0))
         IN IF Len(s2.pendingSubscriptions) > 0
            THEN send(s2, "subscribe", s2.pendingSubscriptions)
            ELSE s2
    [] msg.type = "ticker" -> emit(s, Event("ticker", "", "", 0, 0))
    [] msg.type = "subscribed" ->
         emit([s EXCEPT !.activeSubscriptions = @ \cup {msg.channel},
                        !.pendingSubscriptions = SeqRemove(@, msg.channel)],
              Event("subscribed", "", msg.channel, 0, 0))
    [] msg.type = "unsubscribed" ->
         emit([s EXCEPT !.activeSubscriptions = @ \ {msg.channel},
                        !.pendingSubscriptions = SeqRemove(@, msg.channel)],
              Event("unsubscribed", "", msg.channel, 0, 0))
    [] msg.type = "error" -> emit(s, Event("error", "SERVER", "", 0, 0))
    [] msg.type = "pong" -> s

\* mutant: a handshake that leaves reconnectAttempts as it is
handleMessage_keepsAttempts(s, msg) ==
  CASE msg.type = "malformed" -> s
    [] msg.type = "connected" ->
         LET s1 == startHeartbeat([s EXCEPT !.state = "connected"])
             s2 == emit(s1, Event("connected", "", "", 0, 0))
         IN IF Len(s2.pendingSubscriptions) > 0
            THEN send(s2, "subscribe", s2.pendingSubscriptions)
            ELSE s2
    [] msg.type = "ticker" -> emit(s, Event("ticker", "", "", 0, 0))
    [] msg.type = "subscribed" ->
         emit([s EXCEPT !.activeSubscriptions = @ \cup {msg.channel}],
              Event("subscribed", "", msg.channel, 0, 0))
    [] msg.type = "unsubscribed" ->
         emit([s EXCEPT !.activeSubscriptions = @ \ {msg.channel},
                        !.pendingSubscriptions = SeqRemove(@, msg.channel)],
              Event("unsubscribed", "", msg.channel, 0, 0))
    [] msg.type = "error" -> emit(s, Event("error", "SERVER", "", 0, 0))
    [] msg.type = "pong" -> s

\* mutant: a payload that does not parse is reported as an error event
handleMessage_malformedErrors(s, msg) ==
  CASE msg.type = "malformed" -> emit(s, Event("error", "PARSE", "", 0, 0))
    [] msg.type = "connected" ->
         LET s1 == startHeartbeat([s EXCEPT !.state = "connected",
                                            !.reconnectAttempts = 0])
             s2 == emit(s1, Event("connected", "", "", 0, 0))
         IN IF Len(s2.pendingSubscriptions) > 0
            THEN send(s2, "subscribe", s2.pendingSubscriptions)
            ELSE s2
    [] msg.type = "ticker" -> emit(s, Event("ticker", "", "", 0, 0))
    [] msg.type = "subscribed" ->
         emit([s EXCEPT !.activeSubscriptions = @ \cup {msg.channel}],
              Event("subscribed", "", msg.channel, 0, 0))
    [] msg.type = "unsubscribed" ->
         emit([s EXCEPT !.activeSubscriptions = @ \ {msg.channel},
                        !.pendingSubscriptions = SeqRemove(@, msg.channel)],
              Event("unsubscribed", "", msg.channel, 0, 0))
    [] msg.type = "error" -> emit(s, Event("error", "SERVER", "", 0, 0))
    [] msg.type = "pong" -> s

handleMessage(s, msg) ==
  CASE msg.type = "malformed" -> s
    [] msg.type = "connected" ->
         LET s1 == startHeartbeat([s EXCEPT !.state = "connected",
                                            !.reconnectAttempts = 0])
             s2 == emit(s1, Event("connected", "", "", 0, 0))
         IN IF Len(s2.pendingSubscriptions) > 0
            THEN send(s2, "subscribe", s2.pendingSubscriptions)
            ELSE s2
    [] msg.type = "ticker" -> emit(s, Event("ticker", "", "", 0, 0))
    [] msg.type = "subscribed" ->
         emit([s EXCEPT !.activeSubscriptions = @ \cup {msg.channel}],
              Event("subscribed", "", msg.channel, 0, 0))
    [] msg.type = "unsubscribed" ->
         emit([s EXCEPT !.activeSubscriptions = @ \ {msg.channel},
                        !.pendingSubscriptions = SeqRemove(@, msg.channel)],
              Event("unsubscribed", "", msg.channel, 0, 0))
    [] msg.type = "error" -> emit(s, Event("error", "SERVER", "", 0, 0))
    [] msg.type = "pong" -> s

\* ------------------------------------------------------- session actions
WsOption(a, m, hb) ==
  [autoReconnect |-> a, maxReconnectAttempts |-> m, heartbeatIntervalMs |-> hb]

\* the configurations explored: the defaults with a small attempt budget,
\* an unbounded budget without heartbeat, and auto-reconnect switched off
WsOptions ==
  {WsOption(TRUE, 2, 30000), WsOption(TRUE, 0, 0), WsOption(FALSE, 2, 30000)}

InitWs ==
  /\ state = "disconnected"
  /\ ws = "null"
  /\ stale = [opening |-> 0, open |-> 0]
  /\ reconnectAttempts = 0
  /\ reconnectTimer = FALSE
  /\ lostTimers = 0
  /\ heartbeatTimer = FALSE
  /\ pendingSubscriptions = <<>>
  /\ activeSubscriptions = {}
  /\ options \in WsOptions
  /\ emitted = <<>>
  /\ sent = <<>>
  /\ last = "new"
  /\ disconnectCalled = FALSE
  /\ requested = {}
  /\ wanted = {}
  /\ dropped = {}
  /\ healing = FALSE
  /\ escaped = FALSE

CallConnect(track) ==
  \E ctorThrows \in BOOLEAN, throws \in BOOLEAN :
    /\ Commit(connect(Calling(throws), ctorThrows), "connect")
    /\ History(track, "connect", {})

CallDisconnect(track) ==
  /\ Commit(disconnect(Cur), "disconnect")
  /\ History(track, "disconnect", {})

CallSubscribe(track) ==
  \E channels \in ChannelArgs :
    /\ Commit(subscribe(Cur, channels), "subscribe")
    /\ History(track, "subscribe", SeqToSet(channels))

CallUnsubscribe(track) ==
  \E channels \in ChannelArgs :
    /\ Commit(unsubscribe(Cur, channels), "unsubscribe")
    /\ History(track, "unsubscribe", SeqToSet(channels))

\* the handle an event arrives on: the one this.ws refers to, or a stale one
Targets == {"current", "stale"}

\* the transport finishes opening a handle and runs its onopen
TransportOpen(track) ==
  \E target \in Targets :
    /\ IF target = "current"
       THEN /\ ws = "opening"
            /\ Commit(onopen([Cur EXCEPT !.ws = "open"]), "open")
       ELSE /\ stale.opening > 0
            /\ Commit(onopen([Cur EXCEPT !.stale.opening = @ - 1,
                                         !.stale.open = @ + 1]), "open")
    /\ History(track, "open", {})

\* the channels a `connected` listener passes to subscribe(): none (no such
\* listener), or one of the caller's channel lists
ListenerCalls(type) ==
  IF type = "connected" THEN {<<>>} \cup ChannelArgs ELSE {<<>>}

\* a frame arrives on an open handle whose onmessage is set
TransportMessage(track) ==
  \E target \in Targets, msg \in ServerMessages, throws \in BOOLEAN :
    \E channels \in ListenerCalls(msg.type) :
      /\ IF target = "current" THEN ws = "open" ELSE stale.open > 0
      /\ Commit(handleMessage([Calling(throws)
                                EXCEPT !.onConnected = channels], msg),
                msg.type)
      /\ History(track, msg.type,
                 IF msg.type = "connected" THEN SeqToSet(channels)
                 ELSE {msg.channel})

\* a handle closes (refused, dropped, or closed by the server) and runs its
\* onclose; a closed handle runs no callback again
TransportClose(track) ==
  \E target \in Targets, code \in CloseCodes, throws \in BOOLEAN :
    /\ \/ /\ target = "current"
          /\ Live(ws)
          /\ Commit(onclose([Calling(throws) EXCEPT !.ws = "closed"], code),
                    "close")
       \/ /\ target = "stale"
          /\ \E w \in {"opening", "open"} :
               /\ stale[w] > 0
               /\ Commit(onclose([Calling(throws) EXCEPT !.stale[w] = @ - 1],
                                 code), "close")
    /\ History(track, "close", {})

\* a pending setTimeout callback of scheduleReconnect runs:
\* this.reconnectTimer = null; this.doConnect()
ReconnectTimerFires(track) ==
  \E target \in Targets, ctorThrows \in BOOLEAN, throws \in BOOLEAN :
    /\ IF target = "current"
       THEN /\ reconnectTimer
            /\ Commit(doConnect([Calling(throws) EXCEPT
                                   !.reconnectTimer = FALSE],
                                ctorThrows), "timer")
       ELSE /\ lostTimers > 0
            /\ Commit(doConnect(
                        [Calling(throws) EXCEPT
                           !.lostTimers = @ - 1 + Bit(reconnectTimer),
                           !.reconnectTimer = FALSE],
                        ctorThrows), "timer")
    /\ History(track, "timer", {})

\* the setInterval callback of startHeartbeat runs
HeartbeatTick(track) ==
  /\ heartbeatTimer
  /\ Commit(ping(Cur), "heartbeat")
  /\ History(track, "heartbeat", {})

\* the running method or callback returns: its events have been handed to
\* the listeners and its frames to the transport
Return ==
  /\ ~Idle
  /\ last' = "idle"
  /\ emitted' = <<>>
  /\ sent' = <<>>
  /\ escaped' = FALSE
  /\ UNCHANGED <<sessionVars, disconnectCalled, requested, wanted, dropped,
                 healing, retryVars, pureVars, clientVars>>

\* ------------------------------------------------------- request pipeline
\* a thrown value: a LuziaError with its code, status and retryAfter
\* (status 0 and retryAfter -1 stand for undefined), another Error, a value
\* that is no Error, or undefined
Err(kind, code, status, retryAfter) ==
  [kind |-> kind, code |-> code, status |-> status, retryAfter |-> retryAfter]

LuziaError(code, status, retryAfter) == Err("LuziaError", code, status, retryAfter)

Undefined == Err("undefined", "", 0, -1)

\* an option value: a number, or undefined
Num(n) == [def |-> TRUE, n |-> n]
Undef == [def |-> FALSE, n |-> 0]

DEFAULT_RETRY_OPTIONS == [maxRetries |-> Num(3)]

\* { ...DEFAULT_RETRY_OPTIONS, ...options }: a key of options wins, also
\* when its value is undefined
resolveRetryOptions(opts) ==
  [k \in DOMAIN DEFAULT_RETRY_OPTIONS |->
     IF k \in DOMAIN opts THEN opts[k] ELSE DEFAULT_RETRY_OPTIONS[k]]

\* a <= b and a >= b of JavaScript, false when b is undefined
\* mutant: the loop test written attempt < maxRetries
LessEq_strict(a, b) == b.def /\ a < b.n

LessEq(a, b) == b.def /\ a <= b.n
GreaterEq(a, b) == b.def /\ a >= b.n

\* mutant: every LuziaError is retried
isRetryableError_anyLuziaError(e) == e.kind = "LuziaError"

isRetryableError(e) ==
  IF e.kind # "LuziaError" THEN FALSE
  ELSE IF e.code \in {"rate_limit", "network", "timeout", "server"} THEN TRUE
  ELSE IF e.status # 0
       THEN e.status = 408 \/ e.status = 429 \/ e.status >= 500
       ELSE FALSE

\* the response headers carry no Retry-After: parseInt('60', 10)
createErrorFromResponse(status) ==
  CASE status = 400 -> LuziaError("validation", status, -1)
    [] status = 401 -> LuziaError("auth", status, -1)
    [] status = 404 -> LuziaError("not_found", status, -1)
    [] status = 429 -> LuziaError("rate_limit", status, 60)
    [] status = 503 -> LuziaError("server", status, -1)
    [] OTHER -> LuziaError(IF status >= 500 THEN "server" ELSE "unknown",
                           status, -1)

\* what the catch block of _doRequest receives, turned into what it throws
handleFetchError(error) ==
  CASE error.kind = "AbortError" -> LuziaError("timeout", 0, -1)
    [] error.kind = "TypeError" /\ error.code = "fetch" ->
         LuziaError("network", 0, -1)
    [] error.kind = "LuziaError" -> error
    [] OTHER -> LuziaError("network", 0, -1)

Statuses == {200, 204, 400, 401, 403, 404, 408, 429, 500, 503}

\* one transport call: fetch resolves with a status and a body that
\* response.json() can or cannot read, or rejects with an AbortError (the
\* deadline), a TypeError naming fetch, another Error or a non-Error value
TransportBehaviours ==
  {[settle |-> "response", status |-> st, json |-> j, error |-> Undefined] :
      st \in Statuses, j \in BOOLEAN}
  \cup {[settle |-> "reject", status |-> 0, json |-> FALSE, error |-> e] :
      e \in {Err("AbortError", "", 0, -1), Err("TypeError", "fetch", 0, -1),
             Err("TypeError", "", 0, -1), Err("string", "", 0, -1),
             Undefined}}

Ok(status) == [ok |-> TRUE, status |-> status, error |-> Undefined]
Fail(e) == [ok |-> FALSE, status |-> 0, error |-> e]

\* _doRequest: response.ok is status in 200..299
doRequest(b) ==
  IF b.settle = "reject" THEN Fail(handleFetchError(b.error))
  ELSE IF ~(b.status >= 200 /\ b.status <= 299)
       THEN Fail(handleFetchError(createErrorFromResponse(b.status)))
       ELSE IF b.json THEN Ok(b.status)
            ELSE Fail(handleFetchError(Err("SyntaxError", "", 0, -1)))

\* what an arbitrary operation handed to withRetry can do
FnOutcomes ==
  {Ok(200)} \cup
  {Fail(e) : e \in {LuziaError("network", 0, -1), LuziaError("auth", 401, -1),
                    LuziaError("rate_limit", 429, 20),
                    LuziaError("unknown", 503, -1),
                    LuziaError("unknown", 0, -1),
                    Err("TypeError", "", 0, -1), Undefined}}

\* largest maxRetries a caller passes explicitly
MaxRetriesArg == 2

RetryOptionArgs ==
  {<<>>} \cup {[maxRetries |-> v] :
                 v \in {Undef} \cup {Num(n) : n \in -1..MaxRetriesArg}}

Resolved(status) == [kind |-> "resolved", status |-> status, error |-> Undefined]
Rejected(e) == [kind |-> "rejected", status |-> 0, error |-> e]
Unsettled == [kind |-> "none", status |-> 0, error |-> Undefined]

InitRetryIdle ==
  /\ pc = "idle"
  /\ mode = "withRetry"
  /\ retryOptions = <<>>
  /\ resolvedOptions = DEFAULT_RETRY_OPTIONS
  /\ attempt = 0
  /\ lastError = Undefined
  /\ calls = 0
  /\ thrown = <<>>
  /\ returned = <<>>
  /\ onRetryCalls = <<>>
  /\ transported = <<>>
  /\ outcome = Unsettled

\* the return value of a call of an exported function
NoResult == [done |-> FALSE]
Returned(v) == [done |-> TRUE, value |-> v]

InitPureIdle ==
  /\ arg = Undefined
  /\ result = NoResult

\* a client on which no request has been made
InitClientIdle ==
  /\ apc = "idle"
  /\ deadline = "none"
  /\ timeout = 30000
  /\ received = Undef
  /\ lastRateLimitInfo = Undef
  /\ attemptResult = NoResult
  /\ requests = 0

Init == InitWs /\ InitRetryIdle /\ InitPureIdle /\ InitClientIdle

Next ==
  \/ CallConnect(FALSE)
  \/ CallDisconnect(FALSE)
  \/ CallSubscribe(FALSE)
  \/ CallUnsubscribe(FALSE)
  \/ TransportOpen(FALSE)
  \/ TransportMessage(FALSE)
  \/ TransportClose(FALSE)
  \/ ReconnectTimerFires(FALSE)
  \/ HeartbeatTick(FALSE)
  \/ Return

Spec == Init /\ [][Next]_vars

\* the session under its default options (auto-reconnect enabled), with the
\* history variables wanted, dropped and healing recorded
InitAuto == Init /\ options = WsOption(TRUE, 2, 30000)

NextAuto ==
  \/ CallConnect(TRUE)
  \/ CallDisconnect(TRUE)
  \/ CallSubscribe(TRUE)
  \/ CallUnsubscribe(TRUE)
  \/ TransportOpen(TRUE)
  \/ TransportMessage(TRUE)
  \/ TransportClose(TRUE)
  \/ ReconnectTimerFires(TRUE)
  \/ HeartbeatTick(TRUE)
  \/ Return

SpecAuto == InitAuto /\ [][NextAuto]_vars

\* one call of withRetry(fn, options), or of request() with retry options
InitRetry ==
  /\ InitWs
  /\ options = WsOption(TRUE, 2, 30000)
  /\ pc = "start"
  /\ mode \in {"withRetry", "request"}
  /\ retryOptions \in RetryOptionArgs
  /\ resolvedOptions = DEFAULT_RETRY_OPTIONS
  /\ attempt = 0
  /\ lastError = Undefined
  /\ calls = 0
  /\ thrown = <<>>
  /\ returned = <<>>
  /\ onRetryCalls = <<>>
  /\ transported = <<>>
  /\ outcome = Unsettled
  /\ InitPureIdle
  /\ InitClientIdle

\* const resolvedOptions = resolveRetryOptions(options); attempt = 0
RetryResolve ==
  /\ pc = "start"
  /\ resolvedOptions' = resolveRetryOptions(retryOptions)
  /\ attempt' = 0
  /\ pc' = "test"
  /\ UNCHANGED <<mode, retryOptions, lastError, calls, thrown, returned,
                 onRetryCalls, transported, outcome, wsVars, pureVars,
                 clientVars>>

\* mutant: the next invocation started while the last one is in flight
RetryLoopTest_whileInFlight ==
  /\ pc \in {"test", "calling"}
  /\ IF LessEq(attempt, resolvedOptions.maxRetries)
     THEN /\ pc' = "calling"
          /\ calls' = calls + 1
          /\ UNCHANGED outcome
     ELSE /\ pc' = "done"
          /\ outcome' = Rejected(lastError)
          /\ UNCHANGED calls
  /\ UNCHANGED <<mode, retryOptions, resolvedOptions, attempt, lastError,
                 thrown, returned, onRetryCalls, transported, wsVars, pureVars,
                 clientVars>>

\* the loop test attempt <= maxRetries: invoke fn, or leave the loop and
\* throw lastError
RetryLoopTest ==
  /\ pc = "test"
  /\ IF LessEq(attempt, resolvedOptions.maxRetries)
     THEN /\ pc' = "calling"
          /\ calls' = calls + 1
          /\ UNCHANGED outcome
     ELSE /\ pc' = "done"
          /\ outcome' = Rejected(lastError)
          /\ UNCHANGED calls
  /\ UNCHANGED <<mode, retryOptions, resolvedOptions, attempt, lastError,
                 thrown, returned, onRetryCalls, transported, wsVars, pureVars,
                 clientVars>>

RetryContext(att, maxRetries, error) ==
  [attempt |-> att, maxRetries |-> maxRetries, error |-> error]

\* mutant: exhaustion rejects with the first error caught, not the last
withRetryStep_throwsFirst(r) ==
  IF r.ok
  THEN /\ pc' = "done"
       /\ outcome' = Resolved(r.status)
       /\ returned' = Append(returned, r.status)
       /\ UNCHANGED <<lastError, thrown, onRetryCalls>>
  ELSE /\ lastError' = r.error
       /\ thrown' = Append(thrown, r.error)
       /\ UNCHANGED returned
       /\ IF ~isRetryableError(r.error)
          THEN /\ pc' = "done"
               /\ outcome' = Rejected(r.error)
               /\ UNCHANGED onRetryCalls
          ELSE IF GreaterEq(attempt, resolvedOptions.maxRetries)
               THEN /\ pc' = "done"
                    /\ outcome' = Rejected(IF thrown = <<>> THEN r.error
                                           ELSE thrown[1])
                    /\ UNCHANGED onRetryCalls
               ELSE \* onRetry({ attempt, maxRetries, error }), then sleep
                    /\ onRetryCalls' =
                          Append(onRetryCalls,
                                 RetryContext(attempt,
                                              resolvedOptions.maxRetries,
                                              r.error))
                    /\ pc' = "sleeping"
                    /\ UNCHANGED outcome

\* mutant: onRetry called before the test for exhausted retries
withRetryStep_onRetryFirst(r) ==
  IF r.ok
  THEN /\ pc' = "done"
       /\ outcome' = Resolved(r.status)
       /\ returned' = Append(returned, r.status)
       /\ UNCHANGED <<lastError, thrown, onRetryCalls>>
  ELSE /\ lastError' = r.error
       /\ thrown' = Append(thrown, r.error)
       /\ UNCHANGED returned
       /\ IF ~isRetryableError(r.error)
          THEN /\ pc' = "done"
               /\ outcome' = Rejected(r.error)
               /\ UNCHANGED onRetryCalls
          ELSE IF GreaterEq(attempt, resolvedOptions.maxRetries)
               THEN /\ pc' = "done"
                    /\ outcome' = Rejected(r.error)
                    /\ onRetryCalls' =
                          Append(onRetryCalls,
                                 RetryContext(attempt,
                                              resolvedOptions.maxRetries,
                                              r.error))
               ELSE \* onRetry({ attempt, maxRetries, error }), then sleep
                    /\ onRetryCalls' =
                          Append(onRetryCalls,
                                 RetryContext(attempt,
                                              resolvedOptions.maxRetries,
                                              r.error))
                    /\ pc' = "sleeping"
                    /\ UNCHANGED outcome

\* the body of the loop once fn has settled with result r
withRetryStep(r) ==
  IF r.ok
  THEN /\ pc' = "done"
       /\ outcome' = Resolved(r.status)
       /\ returned' = Append(returned, r.status)
       /\ UNCHANGED <<lastError, thrown, onRetryCalls>>
  ELSE /\ lastError' = r.error
       /\ thrown' = Append(thrown, r.error)
       /\ UNCHANGED returned
       /\ IF ~isRetryableError(r.error)
          THEN /\ pc' = "done"
               /\ outcome' = Rejected(r.error)
               /\ UNCHANGED onRetryCalls
          ELSE IF GreaterEq(attempt, resolvedOptions.maxRetries)
               THEN /\ pc' = "done"
                    /\ outcome' = Rejected(r.error)
                    /\ UNCHANGED onRetryCalls
               ELSE \* onRetry({ attempt, maxRetries, error }), then sleep
                    /\ onRetryCalls' =
                          Append(onRetryCalls,
                                 RetryContext(attempt,
                                              resolvedOptions.maxRetries,
                                              r.error))
                    /\ pc' = "sleeping"
                    /\ UNCHANGED outcome

\* fn settles
RetryFnSettles ==
  /\ pc = "calling"
  /\ \/ /\ mode = "withRetry"
        /\ \E r \in FnOutcomes : withRetryStep(r)
        /\ UNCHANGED transported
     \/ /\ mode = "request"
        /\ \E b \in TransportBehaviours :
             /\ withRetryStep(doRequest(b))
             /\ transported' = Append(transported, b.status)
  /\ UNCHANGED <<mode, retryOptions, resolvedOptions, attempt, calls, wsVars,
                 pureVars, clientVars>>

\* await sleep(delay) returns; attempt++
RetrySleepElapses ==
  /\ pc = "sleeping"
  /\ attempt' = attempt + 1
  /\ pc' = "test"
  /\ UNCHANGED <<mode, retryOptions, resolvedOptions, lastError, calls,
                 thrown, returned, onRetryCalls, transported, outcome,
                 wsVars, pureVars, clientVars>>

NextRetry ==
  \/ RetryResolve
  \/ RetryLoopTest
  \/ RetryFnSettles
  \/ RetrySleepElapses

SpecRetry == InitRetry /\ [][NextRetry]_vars

\* one call of an exported pure function
ErrorCodes ==
  {"auth", "not_found", "validation", "rate_limit", "timeout", "network",
   "server", "unknown"}

\* the status of a LuziaError: undefined (0) or a number, around each
\* threshold of isRetryableError
ErrorStatuses ==
  {0, 400, 401, 404, 407, 408, 409, 428, 429, 430, 499, 500, 501, 503}

\* values handed to isRetryableError
ErrorValues ==
  {LuziaError(c, st, -1) : c \in ErrorCodes, st \in ErrorStatuses}
  \cup {Err("Error", "", 0, -1), Err("TypeError", "", 0, -1),
         Err("string", "", 0, -1), Undefined}

InitPure ==
  /\ InitWs
  /\ options = WsOption(TRUE, 2, 30000)
  /\ InitRetryIdle
  /\ InitClientIdle
  /\ arg \in ErrorValues
  /\ result = NoResult

ApplyIsRetryableError ==
  /\ ~result.done
  /\ result' = Returned(isRetryableError(arg))
  /\ UNCHANGED <<arg, wsVars, retryVars, clientVars>>

NextPure ==
  \/ ApplyIsRetryableError

SpecPure == InitPure /\ [][NextPure]_vars

\* ---------------------------------------------------- calculateRetryDelay
\* a JavaScript number that holds an integer (Num), or NaN
NaN == [def |-> TRUE, nan |-> TRUE]
IsNaN(x) == "nan" \in DOMAIN x

Min(a, b) == IF a <= b THEN a ELSE b

\* Math.min, x * k and x + k: NaN is contagious
MathMin(x, y) == IF IsNaN(x) \/ IsNaN(y) THEN NaN ELSE Num(Min(x.n, y.n))
Times(x, k) == IF IsNaN(x) THEN NaN ELSE Num(x.n * k)
Plus(x, k) == IF IsNaN(x) THEN NaN ELSE Num(x.n + k)

RATE_LIMIT_BUFFER_MS == 100

\* largest attempt number handed to calculateRetryDelay
MaxAttemptArg == 5

\* Math.random(), in hundredths: jitterFactor = 0.5 + Math.random()
RandomValues == {0, 25, 50, 99}

\* mutant: the retry-after hint is jittered like a backoff delay
calculateRetryDelay_jittersHint(att, opts, error, random) ==
  LET delay == IF /\ error.kind = "LuziaError"
                  /\ error.code = "rate_limit"
                  /\ error.retryAfter # Undef
                  /\ ~IsNaN(error.retryAfter)
               THEN error.retryAfter.n * 1000 + RATE_LIMIT_BUFFER_MS
               ELSE opts.initialDelayMs * opts.backoffMultiplier ^ att
      jittered == IF opts.jitter THEN (delay * (50 + random)) \div 100
                  ELSE delay
  IN Num(Min(jittered, opts.maxDelayMs))

\* mutant: the delay is clamped before the jitter is applied
calculateRetryDelay_clampsFirst(att, opts, error, random) ==
  IF /\ error.kind = "LuziaError"
     /\ error.code = "rate_limit"
     /\ error.retryAfter # Undef
  THEN MathMin(Plus(Times(error.retryAfter, 1000), RATE_LIMIT_BUFFER_MS),
               Num(opts.maxDelayMs))
  ELSE LET delay == Min(opts.initialDelayMs * opts.backoffMultiplier ^ att,
                        opts.maxDelayMs)
       IN Num(IF opts.jitter THEN (delay * (50 + random)) \div 100
              ELSE delay)

\* `error` is the optional LuziaError (kind "undefined" when absent) and
\* `random` what Math.random() returns, in hundredths
calculateRetryDelay(att, opts, error, random) ==
  IF /\ error.kind = "LuziaError"
     /\ error.code = "rate_limit"
     /\ error.retryAfter # Undef
  THEN MathMin(Plus(Times(error.retryAfter, 1000), RATE_LIMIT_BUFFER_MS),
               Num(opts.maxDelayMs))
  ELSE LET delay == opts.initialDelayMs * opts.backoffMultiplier ^ att
           jittered == IF opts.jitter THEN (delay * (50 + random)) \div 100
                       ELSE delay
       IN Num(Min(jittered, opts.maxDelayMs))

\* resolved options; the first one is DEFAULT_RETRY_OPTIONS with and
\* without jitter
DelayOptions ==
  {[initialDelayMs |-> i, maxDelayMs |-> m, backoffMultiplier |-> b,
    jitter |-> j] :
      i \in {1000, 200}, m \in {30000, 5000}, b \in {2, 1, 3},
      j \in BOOLEAN}

\* the error argument: absent, or a LuziaError with or without retryAfter
DelayErrors ==
  {[kind |-> "undefined", code |-> "", status |-> 0, retryAfter |-> Undef]}
  \cup {[kind |-> "LuziaError", code |-> "rate_limit", status |-> 429,
         retryAfter |-> r] : r \in {Undef, Num(0), Num(20), Num(60)}}
  \cup {[kind |-> "LuziaError", code |-> c, status |-> 503,
         retryAfter |-> r] : c \in {"server", "timeout"},
                             r \in {Undef, Num(20)}}

InitDelay ==
  /\ InitWs
  /\ options = WsOption(TRUE, 2, 30000)
  /\ InitRetryIdle
  /\ InitClientIdle
  /\ arg \in [attempt : 0..MaxAttemptArg, options : DelayOptions,
              error : DelayErrors, random : RandomValues]
  /\ result = NoResult

ApplyCalculateRetryDelay ==
  /\ ~result.done
  /\ result' = Returned(calculateRetryDelay(arg.attempt, arg.options,
                                            arg.error, arg.random))
  /\ UNCHANGED <<arg, wsVars, retryVars, clientVars>>

NextDelay ==
  \/ ApplyCalculateRetryDelay

SpecDelay == InitDelay /\ [][NextDelay]_vars

\* ------------------------------------------------ createErrorFromResponse
\* a string value; Undef stands for undefined and for null
Str(s) == [def |-> TRUE, s |-> s]

\* a header value: a sequence of characters
Chars(cs) == [def |-> TRUE, cs |-> cs]

\* a JavaScript value in a test: undefined, null and "" are falsy
Falsy(x) ==
  \/ ~x.def
  \/ "s" \in DOMAIN x /\ x.s = ""
  \/ "cs" \in DOMAIN x /\ x.cs = <<>>

\* x || y
OrElse(x, y) == IF Falsy(x) THEN y ELSE x

Digits == <<"0", "1", "2", "3", "4", "5", "6", "7", "8", "9">>
IsDigit(c) == \E i \in 1..Len(Digits) : Digits[i] = c
DigitValue(c) == (CHOOSE i \in 1..Len(Digits) : Digits[i] = c) - 1

RECURSIVE SkipSpaces(_)
SkipSpaces(cs) ==
  IF cs # <<>> /\ Head(cs) = " " THEN SkipSpaces(Tail(cs)) ELSE cs

\* the value of the longest prefix of decimal digits, after `acc`
RECURSIVE DigitsPrefix(_, _)
DigitsPrefix(cs, acc) ==
  IF cs # <<>> /\ IsDigit(Head(cs))
  THEN DigitsPrefix(Tail(cs), acc * 10 + DigitValue(Head(cs)))
  ELSE acc

\* mutant: parseInt that gives 0 where no digit is found
parseInt_zeroOnGarbage(cs) ==
  LET s1 == SkipSpaces(cs)
      negative == s1 # <<>> /\ Head(s1) = "-"
      s2 == IF s1 # <<>> /\ Head(s1) \in {"-", "+"} THEN Tail(s1) ELSE s1
  IN IF negative THEN Num(0 - DigitsPrefix(s2, 0))
     ELSE Num(DigitsPrefix(s2, 0))

\* parseInt(string, 10): leading white space, a sign, then decimal digits up
\* to the first other character; NaN if there is no digit
parseInt(cs) ==
  LET s1 == SkipSpaces(cs)
      negative == s1 # <<>> /\ Head(s1) = "-"
      s2 == IF s1 # <<>> /\ Head(s1) \in {"-", "+"} THEN Tail(s1) ELSE s1
  IN IF s2 = <<>> \/ ~IsDigit(Head(s2)) THEN NaN
     ELSE IF negative THEN Num(0 - DigitsPrefix(s2, 0))
          ELSE Num(DigitsPrefix(s2, 0))

\* headers.get(name): the value, or null
HeaderGet(headers, name) ==
  IF name \in DOMAIN headers THEN Chars(headers[name]) ELSE Undef

\* body?.field of the value response.json() gave, null when it rejected
BodyField(body, field) ==
  IF body.json /\ field \in DOMAIN body.value THEN Str(body.value[field])
  ELSE Undef

\* mutant: the status text wins over the body's message
errorMessage_statusTextFirst(response) ==
  OrElse(OrElse(Str(response.statusText), BodyField(response.body, "message")),
         Str("Unknown error"))

\* body?.message || response.statusText || 'Unknown error'
errorMessage(response) ==
  OrElse(OrElse(BodyField(response.body, "message"), Str(response.statusText)),
         Str("Unknown error"))

\* parseInt(response.headers.get('Retry-After') || '60', 10)
retryAfterOf(response) ==
  parseInt(OrElse(HeaderGet(response.headers, "Retry-After"),
                  Chars(<<"6", "0">>)).cs)

\* the LuziaError built for a response: code and status by the switch of
\* createErrorFromResponse, with the message, correlationId, details and
\* retryAfter fields (rateLimitInfo is left out)
createErrorFromResponseFull(response) ==
  LET error == createErrorFromResponse(response.status)
  IN [kind |-> error.kind, code |-> error.code, status |-> error.status,
      message |-> errorMessage(response),
      correlationId |-> BodyField(response.body, "correlationId"),
      details |-> IF response.status = 400
                  THEN BodyField(response.body, "details") ELSE Undef,
      retryAfter |-> IF response.status = 429 THEN retryAfterOf(response)
                     ELSE Undef]

\* what response.json() gives: a rejection (empty or non-JSON body), null,
\* or an object with some of message, correlationId and details
Bodies ==
  {[json |-> FALSE, value |-> <<>>]}
  \cup {[json |-> TRUE, value |-> v] :
          v \in {<<>>,
                 [message |-> "bad symbol"],
                 [message |-> ""],
                 [correlationId |-> "req-1"],
                 [message |-> "bad symbol", correlationId |-> "req-1"],
                 [message |-> "bad symbol", correlationId |-> "req-1",
                  details |-> "field"]}}

\* Retry-After header values: seconds, seconds with white space, a unit or a
\* sign, an HTTP-date, other text, and the empty string
RetryAfterValues ==
  {<<"6", "0">>, <<"1", "2", "0">>, <<"0">>, <<" ", "5">>, <<"3", "0", "s">>,
   <<"-", "5">>, <<"W", "e", "d", ",", " ", "2", "1">>, <<"s", "o", "o", "n">>,
   <<>>}

ResponseHeaders ==
  {<<>>} \cup {[h \in {"Retry-After"} |-> v] : v \in RetryAfterValues}

ErrorStatusArgs == {400, 401, 403, 404, 408, 429, 500, 502, 503, 504}

ErrorResponses ==
  [status : ErrorStatusArgs, statusText : {"", "Status Text"},
   body : Bodies, headers : ResponseHeaders]

InitResponse ==
  /\ InitWs
  /\ options = WsOption(TRUE, 2, 30000)
  /\ InitRetryIdle
  /\ InitClientIdle
  /\ arg \in ErrorResponses
  /\ result = NoResult

ApplyCreateErrorFromResponse ==
  /\ ~result.done
  /\ result' = Returned(createErrorFromResponseFull(arg))
  /\ UNCHANGED <<arg, wsVars, retryVars, clientVars>>

NextResponse ==
  \/ ApplyCreateErrorFromResponse

SpecResponse == InitResponse /\ [][NextResponse]_vars

\* ------------------------------------------------------------ _doRequest
EmptyRecord == [x \in {} |-> 0]

\* if (value) info[field] = parseInt(value, 10)
DailyField(headers, name, field) ==
  IF Falsy(HeaderGet(headers, name)) THEN EmptyRecord
  ELSE [f \in {field} |-> parseInt(headers[name])]

\* mutant: the info is built on top of the info stored before
parseRateLimitHeaders_mergesStored(headers) ==
  IF \/ Falsy(HeaderGet(headers, "X-RateLimit-Limit"))
     \/ Falsy(HeaderGet(headers, "X-RateLimit-Remaining"))
     \/ Falsy(HeaderGet(headers, "X-RateLimit-Reset"))
  THEN Undef
  ELSE [limit |-> parseInt(headers["X-RateLimit-Limit"]),
        remaining |-> parseInt(headers["X-RateLimit-Remaining"]),
        reset |-> parseInt(headers["X-RateLimit-Reset"])]
       @@ DailyField(headers, "X-RateLimit-Daily-Limit", "dailyLimit")
       @@ DailyField(headers, "X-RateLimit-Daily-Remaining", "dailyRemaining")
       @@ DailyField(headers, "X-RateLimit-Daily-Reset", "dailyReset")
       @@ (IF lastRateLimitInfo = Undef THEN EmptyRecord
           ELSE lastRateLimitInfo)

\* null unless the limit, remaining and reset headers are all there
parseRateLimitHeaders(headers) ==
  IF \/ Falsy(HeaderGet(headers, "X-RateLimit-Limit"))
     \/ Falsy(HeaderGet(headers, "X-RateLimit-Remaining"))
     \/ Falsy(HeaderGet(headers, "X-RateLimit-Reset"))
  THEN Undef
  ELSE [limit |-> parseInt(headers["X-RateLimit-Limit"]),
        remaining |-> parseInt(headers["X-RateLimit-Remaining"]),
        reset |-> parseInt(headers["X-RateLimit-Reset"])]
       @@ DailyField(headers, "X-RateLimit-Daily-Limit", "dailyLimit")
       @@ DailyField(headers, "X-RateLimit-Daily-Remaining", "dailyRemaining")
       @@ DailyField(headers, "X-RateLimit-Daily-Reset", "dailyReset")

\* handleFetchError with the timeoutMs field of the error it throws
handleFetchErrorFull(error, timeoutMs) ==
  handleFetchError(error)
    @@ [timeoutMs |-> IF error.kind = "AbortError" THEN Num(timeoutMs)
                      ELSE Undef]

\* the rejection of a transport call or body read whose signal was aborted
AbortError == Err("AbortError", "", 0, -1)

\* the rate-limit headers of a response: none, the three that make an info
\* (two sets of values), two of the three, and the three with daily headers
RateLimitHeaders ==
  {<<>>,
   [h \in {"X-RateLimit-Limit", "X-RateLimit-Remaining", "X-RateLimit-Reset"}
      |-> <<"9">>],
   [h \in {"X-RateLimit-Limit", "X-RateLimit-Remaining", "X-RateLimit-Reset"}
      |-> <<"0">>],
   [h \in {"X-RateLimit-Limit", "X-RateLimit-Remaining"} |-> <<"9">>],
   [h \in {"X-RateLimit-Remaining", "X-RateLimit-Reset",
           "X-RateLimit-Daily-Limit"} |-> <<"9">>],
   [h \in {"X-RateLimit-Limit", "X-RateLimit-Remaining", "X-RateLimit-Reset",
           "X-RateLimit-Daily-Limit", "X-RateLimit-Daily-Remaining",
           "X-RateLimit-Daily-Reset"} |-> <<"7">>]}

\* what fetchImpl can resolve with
AttemptResponses ==
  [status : {200, 404, 429, 500}, statusText : {"Status Text"},
   body : {[json |-> FALSE, value |-> <<>>],
           [json |-> TRUE, value |-> [message |-> "bad symbol"]]},
   headers : RateLimitHeaders]

\* what fetchImpl can reject with when the signal has not been aborted
TransportFailures ==
  {Err("TypeError", "fetch", 0, -1), Err("TypeError", "", 0, -1),
   Err("string", "", 0, -1)}

\* largest number of _doRequest calls on one client
MaxRequests == 2

Timeouts == {30000, 5000}

InitAttempt ==
  /\ InitWs
  /\ options = WsOption(TRUE, 2, 30000)
  /\ InitRetryIdle
  /\ InitPureIdle
  /\ apc = "idle"
  /\ deadline = "none"
  /\ timeout \in Timeouts
  /\ received = Undef
  /\ lastRateLimitInfo = Undef
  /\ attemptResult = NoResult
  /\ requests = 0

\* _doRequest up to its first await: the deadline timer is set and the
\* transport call is in flight
AttemptStart ==
  /\ apc = "idle"
  /\ requests < MaxRequests
  /\ apc' = "fetching"
  /\ deadline' = "pending"
  /\ received' = Undef
  /\ attemptResult' = NoResult
  /\ requests' = requests + 1
  /\ UNCHANGED <<timeout, lastRateLimitInfo, wsVars, retryVars, pureVars>>

\* fetchImpl resolves: the rate-limit info is parsed and stored, then the
\* body is read, by createErrorFromResponse if the response is not ok
AttemptFetchResolves ==
  \E res \in AttemptResponses :
    /\ apc = "fetching"
    /\ deadline = "pending"
    /\ received' = res
    /\ lastRateLimitInfo' =
         LET rateLimitInfo == parseRateLimitHeaders(res.headers)
         IN IF rateLimitInfo # Undef THEN rateLimitInfo
            ELSE lastRateLimitInfo
    /\ apc' = IF res.status >= 200 /\ res.status <= 299
              THEN "readingBody" ELSE "readingError"
    /\ UNCHANGED <<deadline, timeout, attemptResult, requests, wsVars,
                   retryVars, pureVars>>

\* fetchImpl rejects: catch, handleFetchError, finally clearTimeout
AttemptFetchRejects ==
  \E error \in TransportFailures :
    /\ apc = "fetching"
    /\ deadline = "pending"
    /\ attemptResult' = Returned(Fail(handleFetchErrorFull(error, timeout)))
    /\ deadline' = "cleared"
    /\ apc' = "idle"
    /\ UNCHANGED <<timeout, received, lastRateLimitInfo, requests, wsVars,
                   retryVars, pureVars>>

\* response.json() of an ok response settles: the value is returned, or the
\* SyntaxError goes through handleFetchError; finally clearTimeout
AttemptBodySettles ==
  /\ apc = "readingBody"
  /\ deadline = "pending"
  /\ attemptResult' =
       Returned(IF received.body.json THEN Ok(received.status)
                ELSE Fail(handleFetchErrorFull(Err("SyntaxError", "", 0, -1),
                                               timeout)))
  /\ deadline' = "cleared"
  /\ apc' = "idle"
  /\ UNCHANGED <<timeout, received, lastRateLimitInfo, requests, wsVars,
                 retryVars, pureVars>>

\* response.json() inside createErrorFromResponse settles: the error is
\* thrown, passes handleFetchError as it is; finally clearTimeout
AttemptErrorBodySettles ==
  /\ apc = "readingError"
  /\ deadline = "pending"
  /\ attemptResult' =
       Returned(Fail(createErrorFromResponseFull(received)
                       @@ [timeoutMs |-> Undef]))
  /\ deadline' = "cleared"
  /\ apc' = "idle"
  /\ UNCHANGED <<timeout, received, lastRateLimitInfo, requests, wsVars,
                 retryVars, pureVars>>

\* the deadline timer fires and aborts the signal: the pending fetchImpl call
\* or body read rejects with an AbortError. In _doRequest the rejection is
\* caught and goes through handleFetchError; in createErrorFromResponse it
\* is caught as an unreadable body
AttemptDeadlineFires ==
  /\ apc \in {"fetching", "readingBody", "readingError"}
  /\ deadline = "pending"
  /\ deadline' = "fired"
  /\ attemptResult' =
       Returned(Fail(
         IF apc = "readingError"
         THEN createErrorFromResponseFull(
                [received EXCEPT !.body = [json |-> FALSE, value |-> <<>>]])
                @@ [timeoutMs |-> Undef]
         ELSE handleFetchErrorFull(AbortError, timeout)))
  /\ apc' = "idle"
  /\ UNCHANGED <<timeout, received, lastRateLimitInfo, requests, wsVars,
                 retryVars, pureVars>>

NextAttempt ==
  \/ AttemptStart
  \/ AttemptFetchResolves
  \/ AttemptFetchRejects
  \/ AttemptBodySettles
  \/ AttemptErrorBodySettles
  \/ AttemptDeadlineFires

SpecAttempt == InitAttempt /\ [][NextAttempt]_vars

\* ------------------------------------------------------ isRetryableStatus
isRetryableStatus(status) ==
  \/ status = 408
  \/ status = 429
  \/ status = 500
  \/ status = 502
  \/ status = 503
  \/ status = 504

\* HTTP status codes
HttpStatuses == 100..599

InitStatus ==
  /\ InitWs
  /\ options = WsOption(TRUE, 2, 30000)
  /\ InitRetryIdle
  /\ InitClientIdle
  /\ arg \in HttpStatuses
  /\ result = NoResult

\* isRetryableStatus(s), and isRetryableError(new LuziaError(m, {status: s}))
ApplyIsRetryableStatus ==
  /\ ~result.done
  /\ result' = Returned([byStatus |-> isRetryableStatus(arg),
                         byError |-> isRetryableError(
                                       LuziaError("unknown", arg, -1))])
  /\ UNCHANGED <<arg, wsVars, retryVars, clientVars>>

NextStatus ==
  \/ ApplyIsRetryableStatus

SpecStatus == InitStatus /\ [][NextStatus]_vars

\* ------------------------------------------- symbolToUrl / symbolFromUrl
\* String.prototype.replaceAll on a sequence of characters, for a pattern
\* of one character
RECURSIVE replaceAll(_, _, _)
replaceAll(cs, pattern, replacement) ==
  IF cs = <<>> THEN <<>>
  ELSE <<IF Head(cs) = pattern THEN replacement ELSE Head(cs)>>
         \o replaceAll(Tail(cs), pattern, replacement)

\* mutant: the URL form is written with an underscore
symbolToUrl_underscore(symbol) == replaceAll(symbol, "/", "_")

symbolToUrl(symbol) == replaceAll(symbol, "/", "-")

symbolFromUrl(symbol) == replaceAll(symbol, "-", "/")

\* longest symbol
MaxSymbolLen == 3

SymbolChars == {"B", "T", "-", "/"}

RECURSIVE StringsUpTo(_)
StringsUpTo(n) ==
  IF n = 0 THEN {<<>>}
  ELSE LET shorter == StringsUpTo(n - 1)
       IN shorter \cup {Append(cs, c) : cs \in shorter, c \in SymbolChars}

MaxSymbolCalls == 2

\* `result` holds the value of the last call and the methods called so far
InitSymbol ==
  /\ InitWs
  /\ options = WsOption(TRUE, 2, 30000)
  /\ InitRetryIdle
  /\ InitClientIdle
  /\ arg \in StringsUpTo(MaxSymbolLen)
  /\ result = [done |-> FALSE, value |-> arg, calls |-> <<>>]

\* client.symbolToUrl on the symbol, or on what the last call returned
ApplySymbolToUrl ==
  /\ Len(result.calls) < MaxSymbolCalls
  /\ result' = [done |-> TRUE, value |-> symbolToUrl(result.value),
                calls |-> Append(result.calls, "symbolToUrl")]
  /\ UNCHANGED <<arg, wsVars, retryVars, clientVars>>

ApplySymbolFromUrl ==
  /\ Len(result.calls) < MaxSymbolCalls
  /\ result' = [done |-> TRUE, value |-> symbolFromUrl(result.value),
                calls |-> Append(result.calls, "symbolFromUrl")]
  /\ UNCHANGED <<arg, wsVars, retryVars, clientVars>>

NextSymbol ==
  \/ ApplySymbolToUrl
  \/ ApplySymbolFromUrl

SpecSymbol == InitSymbol /\ [][NextSymbol]_vars

\* ------------------------------------------- scheduleReconnect: the delay
\* Math.round of a non-negative number given in hundredths
MathRound(hundredths) == (hundredths + 50) \div 100

\* mutant: the counter is incremented before the delay is computed
reconnectSchedule_incrementsFirst(attempts, opts, random) ==
  LET delay == Min(opts.reconnectDelayMs * 2 ^ (attempts + 1),
                   opts.maxReconnectDelayMs)
      jitteredDelay == delay * (50 + random)
  IN [attempt |-> attempts + 1,
      delayMs |-> MathRound(jitteredDelay),
      timerDelay |-> jitteredDelay]

\* the part of scheduleReconnect that computes the delay: the attempt and
\* delayMs of the `reconnecting` event and the delay handed to setTimeout,
\* in hundredths of a millisecond; `random` is Math.random() in hundredths
reconnectSchedule(attempts, opts, random) ==
  LET delay == Min(opts.reconnectDelayMs * 2 ^ attempts,
                   opts.maxReconnectDelayMs)
      jitteredDelay == delay * (50 + random)
  IN [attempt |-> attempts + 1,
      delayMs |-> MathRound(jitteredDelay),
      timerDelay |-> jitteredDelay]

\* largest value of this.reconnectAttempts when a reconnect is scheduled
MaxReconnectCount == 6

ReconnectDelayOptions ==
  [reconnectDelayMs : {1000, 250}, maxReconnectDelayMs : {30000, 4000}]

InitReconnectDelay ==
  /\ InitWs
  /\ options = WsOption(TRUE, 2, 30000)
  /\ InitRetryIdle
  /\ InitClientIdle
  /\ arg \in [reconnectAttempts : 0..MaxReconnectCount,
              options : ReconnectDelayOptions, random : RandomValues]
  /\ result = NoResult

ApplyReconnectSchedule ==
  /\ ~result.done
  /\ result' = Returned(reconnectSchedule(arg.reconnectAttempts, arg.options,
                                          arg.random))
  /\ UNCHANGED <<arg, wsVars, retryVars, clientVars>>

NextReconnectDelay ==
  \/ ApplyReconnectSchedule

SpecReconnectDelay == InitReconnectDelay /\ [][NextReconnectDelay]_vars

\* ------------------------------------------------ claims: streaming session
EventsOf(q, type) == {i \in 1..Len(q) : q[i].type = type}

SubscribeRequests(q) == {i \in 1..Len(q) : q[i].type = "subscribe"}

NoDuplicates(q) == \A i, j \in 1..Len(q) : q[i] = q[j] => i = j

BudgetRemains ==
  \/ options.maxReconnectAttempts <= 0
  \/ reconnectAttempts < options.maxReconnectAttempts

\* C1: disconnect() leaves the state `disconnected` from every state, a
\* disconnect() that follows a disconnect() changes nothing of the session
\* (from every reachable state), and once disconnect() has been called no
\* step ever emits a `reconnecting` event again, also after a later
\* connect() whose connection drops or fails to open.
C1_DisconnectIsFinal ==
  [][/\ last' = "disconnect" => state' = "disconnected"
     /\ disconnect(disconnect(Cur)) = disconnect(Cur)
     /\ disconnectCalled' =>
          /\ EventsOf(emitted', "reconnecting") = {}
          /\ state' # "reconnecting"]_vars

\* a connection made after disconnect() has just dropped
C1_Witness ==
  /\ disconnectCalled
  /\ last = "close"
  /\ EventsOf(emitted, "disconnected") # {}
  /\ ws = "closed"

\* C2: the session never has two live transport handles whose callbacks are
\* bound to it.
C2_AtMostOneHandle == LiveHandles(Cur) <= 1

\* C5: on the handshake that follows the loss of a connected transport, the
\* bulk subscribe request names every channel that was active at the loss
\* and that the caller has subscribed and not unsubscribed.
C5_ResubscribesActive ==
  [][last' = "connected" =>
       \A c \in dropped :
         \E i \in SubscribeRequests(sent') : c \in SeqToSet(sent'[i].channels)]_vars

\* C6: after the loss of a connected transport, with auto-reconnect enabled
\* and attempt budget left, the session is never at rest in `disconnected`:
\* a reconnect timer is pending or a transport handle is opening or open.
C6_KeepsReconnecting ==
  (healing /\ options.autoReconnect /\ BudgetRemains) =>
     ~(state = "disconnected" /\ PendingTimers(Cur) = 0 /\ LiveHandles(Cur) = 0)

C8_DisconnectNeutralizes ==
  last = "disconnect" => (PendingTimers(Cur) = 0 /\ LiveHandles(Cur) = 0)

\* C9: at most one reconnect timer is pending.
C9_AtMostOneReconnectTimer == PendingTimers(Cur) <= 1

\* C10: subscribe() in a state other than `connected` sends nothing and
\* leaves its channels pending; a handshake that finds channels pending
\* sends exactly one subscribe request, naming each pending channel once.
C10_PendingSentOnHandshake ==
  [][/\ (last' = "subscribe" /\ state # "connected") =>
          /\ sent' = <<>>
          /\ SeqToSet(pendingSubscriptions) \subseteq
                SeqToSet(pendingSubscriptions')
          /\ SeqToSet(pendingSubscriptions') # {}
     /\ (last' = "connected" /\ pendingSubscriptions # <<>>) =>
          /\ Cardinality(SubscribeRequests(sent')) = 1
          /\ \A i \in SubscribeRequests(sent') :
                /\ SeqToSet(sent'[i].channels) = SeqToSet(pendingSubscriptions)
                /\ NoDuplicates(sent'[i].channels)]_vars

\* C11 (as stated): a `subscribed` message fires exactly one `subscribed`
\* event and leaves its channel in the active set and out of the pending
\* set; no other step adds a channel to the active set.
C11_MovesPendingToActive ==
  [][/\ last' = "subscribed" =>
          /\ Cardinality(EventsOf(emitted', "subscribed")) = 1
          /\ \A i \in EventsOf(emitted', "subscribed") :
                /\ emitted'[i].channel \in activeSubscriptions'
                /\ emitted'[i].channel \notin SeqToSet(pendingSubscriptions')
     /\ last' # "subscribed" =>
          activeSubscriptions' \subseteq activeSubscriptions]_vars

\* C11 (amended): a `subscribed` message for channel C fires exactly one
\* `subscribed` event, for C, adds C to the active set and leaves the
\* pending set as it was (C stays pending); no other step adds a channel to
\* the active set.
C11_AddsToActive ==
  [][/\ last' = "subscribed" =>
          /\ Len(emitted') = 1
          /\ emitted'[1].type = "subscribed"
          /\ activeSubscriptions' =
                activeSubscriptions \cup {emitted'[1].channel}
          /\ pendingSubscriptions' = pendingSubscriptions
     /\ last' # "subscribed" =>
          activeSubscriptions' \subseteq activeSubscriptions]_vars

\* the server has just confirmed a channel the caller has pending
C11_Witness ==
  /\ last = "subscribed"
  /\ Len(emitted) = 1
  /\ emitted[1].channel \in activeSubscriptions
  /\ emitted[1].channel \in SeqToSet(pendingSubscriptions)

\* C12: every channel in the active set has been passed to subscribe()
\* earlier in the session.
C12_ActiveWereRequested == activeSubscriptions \subseteq requested

\* C13: unsubscribe(channels) takes the channels out of the pending and the
\* active set in every state and sends one unsubscribe request naming them
\* if and only if the state is `connected`; the bulk subscribe request of a
\* handshake names pending channels only, and only subscribe() adds a
\* channel to the pending set.
C13_Unsubscribe ==
  [][/\ last' = "unsubscribe" =>
          \E channels \in ChannelArgs :
            /\ SeqToSet(pendingSubscriptions') =
                  SeqToSet(pendingSubscriptions) \ SeqToSet(channels)
            /\ activeSubscriptions' = activeSubscriptions \ SeqToSet(channels)
            /\ IF state = "connected"
               THEN /\ Len(sent') = 1
                    /\ sent'[1].type = "unsubscribe"
                    /\ sent'[1].channels = channels
               ELSE sent' = <<>>
     /\ last' = "connected" =>
          \A i \in SubscribeRequests(sent') :
             SeqToSet(sent'[i].channels) \subseteq SeqToSet(pendingSubscriptions')
     /\ last' # "subscribe" =>
          SeqToSet(pendingSubscriptions') \subseteq
             SeqToSet(pendingSubscriptions) \cup
               UNION {SeqToSet(emitted'[i].called) : i \in DOMAIN emitted'}]_vars

\* C14: only a handshake message makes the state `connected`; a transport
\* open event changes no state, sends nothing and emits nothing; and a
\* request is sent only in state `connected`, that is by the handshake step
\* or after it.
C14_HandshakeConnects ==
  [][/\ (state' = "connected" /\ state # "connected") => last' = "connected"
     /\ last' = "open" =>
          /\ state' = state
          /\ sent' = <<>>
          /\ emitted' = <<>>
     /\ sent' # <<>> =>
          /\ state' = "connected"
          /\ state = "connected" \/ last' = "connected"]_vars

\* the transport has opened and the session still waits for the handshake
C14_Witness ==
  /\ last = "open"
  /\ state = "connecting"
  /\ ws = "open"

\* C15: with maxReconnectAttempts = N > 0 the counter never exceeds N; every
\* `reconnecting` event carries the counter just incremented by one, and
\* only a handshake lowers the counter, to 0 (so at most N such events lie
\* between two handshakes); a reconnect requested with the counter at N
\* emits MAX_RECONNECT, schedules no timer and leaves the counter; with
\* N = 0 MAX_RECONNECT is never emitted.
C15_AttemptBudget ==
  [][/\ options.maxReconnectAttempts > 0 =>
          reconnectAttempts' <= options.maxReconnectAttempts
     /\ \A i \in EventsOf(emitted', "reconnecting") :
          /\ emitted'[i].attempt = reconnectAttempts'
          /\ reconnectAttempts' = reconnectAttempts + 1
     /\ last' = "connected" => reconnectAttempts' = 0
     /\ reconnectAttempts' < reconnectAttempts => last' = "connected"
     /\ (/\ last' \in {"connect", "timer"}
         /\ \E i \in EventsOf(emitted', "error") :
               emitted'[i].code = "CONNECTION_FAILED"
         /\ options.autoReconnect
         /\ options.maxReconnectAttempts > 0
         /\ reconnectAttempts = options.maxReconnectAttempts) =>
          /\ \E i \in EventsOf(emitted', "error") :
                emitted'[i].code = "MAX_RECONNECT"
          /\ EventsOf(emitted', "reconnecting") = {}
          /\ PendingTimers(Cur)' =
                PendingTimers(Cur) - Bit(last' = "timer")
          /\ reconnectAttempts' = reconnectAttempts
     /\ (\E i \in EventsOf(emitted', "error") :
            emitted'[i].code = "MAX_RECONNECT") =>
          /\ options.maxReconnectAttempts > 0
          /\ reconnectAttempts = options.maxReconnectAttempts]_vars

\* the budget of 2 is used up and a further reconnect was refused
C15_Witness ==
  /\ last = "timer"
  /\ reconnectAttempts = 2
  /\ options.maxReconnectAttempts = 2
  /\ \E i \in EventsOf(emitted, "error") : emitted[i].code = "MAX_RECONNECT"

\* ------------------------------------------------ claims: request pipeline
\* C3: a finished withRetry call has invoked the operation at most
\* maxRetries+1 times; exactly maxRetries+1 times when every invocation
\* failed with a retryable error; exactly once when the first failure was
\* not retryable (a value that is no LuziaError included).
C3_InvocationCount ==
  (pc = "done" /\ resolvedOptions.maxRetries.def) =>
     /\ calls <= resolvedOptions.maxRetries.n + 1
     /\ (/\ outcome.kind = "rejected"
         /\ Len(thrown) = calls
         /\ \A i \in 1..Len(thrown) : isRetryableError(thrown[i]))
          => calls = resolvedOptions.maxRetries.n + 1
     /\ (thrown # <<>> /\ ~isRetryableError(thrown[1])) => calls = 1

\* every attempt failed with a retryable error and the retries ran out
C3_Witness ==
  /\ pc = "done"
  /\ resolvedOptions.maxRetries = Num(2)
  /\ calls = 3
  /\ Len(thrown) = 3
  /\ \A i \in 1..3 : isRetryableError(thrown[i])

\* C4: a finished request() has either resolved with the body of a 2xx
\* response or rejected with a LuziaError.
C4_RequestSettlesTyped ==
  (mode = "request" /\ pc = "done") =>
     \/ outcome.kind = "resolved" /\ outcome.status \in 200..299
     \/ outcome.kind = "rejected" /\ outcome.error.kind = "LuziaError"

\* C16: a withRetry call that rejects after at least one invocation rejects
\* with the value its last invocation threw; one that resolves does so with
\* the result of its only successful invocation, which was its last; after
\* a successful invocation the operation is not invoked again.
C16_LastErrorOrResult ==
  [][/\ (pc' = "done" /\ outcome'.kind = "rejected" /\ thrown' # <<>>) =>
          outcome'.error = thrown'[Len(thrown')]
     /\ (pc' = "done" /\ outcome'.kind = "resolved") =>
          /\ returned' = <<outcome'.status>>
          /\ calls' = Len(thrown') + 1
     /\ returned # <<>> => calls' = calls]_vars

\* two retryable failures with different errors, then the retries ran out
C16_Witness ==
  /\ pc = "done"
  /\ outcome.kind = "rejected"
  /\ Len(thrown) = 3
  /\ thrown[1] # thrown[3]
  /\ thrown[2] # thrown[3]
  /\ outcome.error = thrown[3]

\* C17: onRetry is called once per retry: when the call has finished after
\* n >= 1 invocations it was called n - 1 times; the i-th call carries
\* attempt = i - 1, the resolved maxRetries and the error the i-th invocation
\* threw, which was retryable and did not exhaust the retries; and it has
\* been called for a failure by the time the wait for it begins.
C17_OnRetryCalls ==
  /\ (pc = "done" /\ calls >= 1) => Len(onRetryCalls) = calls - 1
  /\ Len(onRetryCalls) <= Len(thrown)
  /\ pc = "sleeping" => Len(onRetryCalls) = Len(thrown)
  /\ \A i \in 1..Len(onRetryCalls) :
       /\ onRetryCalls[i].attempt = i - 1
       /\ onRetryCalls[i].maxRetries = resolvedOptions.maxRetries
       /\ onRetryCalls[i].error = thrown[i]
       /\ isRetryableError(thrown[i])
       /\ resolvedOptions.maxRetries.def
       /\ i - 1 < resolvedOptions.maxRetries.n
  /\ \A i \in 1..Len(thrown) :
       ~isRetryableError(thrown[i]) => Len(onRetryCalls) < i

\* two retries were announced and the third invocation failed for good
C17_Witness ==
  /\ pc = "done"
  /\ calls = 3
  /\ Len(onRetryCalls) = 2
  /\ outcome.kind = "rejected"

\* C18: the operation is invoked only when the call is at its loop test,
\* every earlier invocation has rejected and a wait has elapsed after each
\* of them, and the call has not settled.
C18_NeverConcurrent ==
  [][calls' # calls =>
       /\ calls' = calls + 1
       /\ pc = "test"
       /\ Len(thrown) = calls
       /\ returned = <<>>
       /\ attempt = calls
       /\ outcome = Unsettled]_vars

\* request(): the deadline ended the first attempt and the second has begun
C18_Witness ==
  /\ mode = "request"
  /\ pc = "calling"
  /\ calls = 2
  /\ Len(thrown) = 1
  /\ thrown[1].code = "timeout"

NonRetryableCodes == {"auth", "validation", "not_found", "unknown"}

\* an invocation that threw thrown[i] was the last step of the call: no
\* further invocation, no wait, no onRetry call for it
EndsAtOnce(i) ==
  /\ pc = "done"
  /\ Len(thrown) = i
  /\ calls = i
  /\ returned = <<>>
  /\ Len(onRetryCalls) = i - 1
  /\ outcome = Rejected(thrown[i])

RetryableCodes == {"rate_limit", "network", "timeout", "server"}

\* C20: isRetryableError returns true exactly for a LuziaError whose code is
\* rate_limit, network, timeout or server, or whose code is unknown and
\* whose status is 408, 429 or at least 500; false for any other value.
C20_RetryableIff ==
  result.done =>
     result.value =
        (/\ arg.kind = "LuziaError"
         /\ \/ arg.code \in RetryableCodes
            \/ /\ arg.code = "unknown"
               /\ arg.status \in {408, 429} \/ arg.status >= 500)

\* ------------------------------------ claims: listeners, frames, teardown
\* C28: when a listener throws during the emission of an event, every other
\* listener registered for that event is still invoked, the exception does
\* not leave the method or callback that emitted, and the rest of the
\* transition still happens: after a throwing `connected` listener the
\* pending channels are still sent in one subscribe request, and after a
\* throwing `disconnected` listener the reconnect is still scheduled.
C28_ListenerThrows ==
  [][(\E i \in DOMAIN emitted' : emitted'[i].threw) =>
       /\ ~escaped'
       /\ \A i \in DOMAIN emitted' : emitted'[i].invoked = SeqToSet(Listeners)
       /\ (last' = "connected" /\ pendingSubscriptions' # <<>> /\ ws # "null")
            => /\ sent' # <<>>
               /\ sent'[Len(sent')].type = "subscribe"
               /\ sent'[Len(sent')].channels = pendingSubscriptions'
       /\ (last' = "close" /\ state = "connected" /\ options.autoReconnect)
            => /\ state' = "reconnecting"
               /\ reconnectTimer'
               /\ PendingTimers(Cur)' = PendingTimers(Cur) + 1
               /\ Cardinality(EventsOf(emitted', "reconnecting")) = 1]_vars

\* a handshake whose `connected` listener threw has sent the pending channels
C28_Witness ==
  /\ last = "connected"
  /\ \E i \in EventsOf(emitted, "connected") : emitted[i].threw
  /\ Len(sent) = 1
  /\ sent[1].type = "subscribe"

\* C29: an incoming message whose payload cannot be parsed leaves the whole
\* session unchanged (state, pending and active sets, reconnectAttempts,
\* timers, transport handle), emits no event and raises no exception.
C29_MalformedIgnored ==
  [][last' = "malformed" =>
       /\ UNCHANGED sessionVars
       /\ emitted' = <<>>
       /\ sent' = <<>>
       /\ ~escaped']_vars

\* an unparseable payload has arrived in a connected session with a pending
\* channel and a running heartbeat
C29_Witness ==
  /\ last = "malformed"
  /\ state = "connected"
  /\ pendingSubscriptions # <<>>
  /\ heartbeatTimer

\* C30: after disconnect() no channel remains in the active set or in the
\* pending set.
C30_TeardownClearsChannels ==
  last = "disconnect" =>
     /\ activeSubscriptions = {}
     /\ pendingSubscriptions = <<>>

\* C27: the heartbeat timer runs only while the state is `connected`: it is
\* started by the handshake only, it is stopped by every transport close
\* event and by disconnect(), a tick sends a ping exactly when the state is
\* `connected`, and with heartbeatIntervalMs = 0 it is never started.
C27_HeartbeatOnlyConnected ==
  [][/\ heartbeatTimer' => state' = "connected"
     /\ (heartbeatTimer' /\ ~heartbeatTimer) => last' = "connected"
     /\ last' \in {"close", "disconnect"} => ~heartbeatTimer'
     /\ last' = "heartbeat" =>
          sent' = IF state = "connected"
                  THEN <<[to |-> ws, type |-> "ping", channels |-> <<>>]>>
                  ELSE <<>>
     /\ options.heartbeatIntervalMs = 0 => ~heartbeatTimer']_vars

\* ------------------------------------------------- claims: retry delays
HasHint(error) ==
  /\ error.kind = "LuziaError"
  /\ error.code = "rate_limit"
  /\ error.retryAfter # Undef

\* C21: for a rate_limit error with a retry-after hint of h seconds,
\* calculateRetryDelay returns exactly min(h * 1000 + 100, maxDelayMs), for
\* every attempt number and whatever jitter, initialDelayMs and
\* backoffMultiplier are; h = 20 with the default maxDelayMs gives 20100.
C21_HintTakesPrecedence ==
  (result.done /\ HasHint(arg.error)) =>
     /\ result.value = Num(Min(arg.error.retryAfter.n * 1000 + 100,
                               arg.options.maxDelayMs))
     /\ (arg.error.retryAfter = Num(20) /\ arg.options.maxDelayMs = 30000)
          => result.value = Num(20100)

\* a hint of 60 seconds has been clamped to maxDelayMs = 5000 on a later
\* attempt with jitter enabled
C21_Witness ==
  /\ result.done
  /\ HasHint(arg.error)
  /\ arg.error.retryAfter = Num(60)
  /\ arg.options.jitter
  /\ arg.attempt > 0
  /\ result.value = Num(5000)

\* C22: without a hint calculateRetryDelay returns
\* min(initialDelayMs * backoffMultiplier^attempt * f, maxDelayMs) with f = 1
\* when jitter is disabled and 0.5 <= f < 1.5 when it is enabled; with the
\* defaults and no jitter that is min(1000 * 2^attempt, 30000); the result
\* never exceeds maxDelayMs.
C22_Backoff ==
  (result.done /\ ~HasHint(arg.error)) =>
     LET base == arg.options.initialDelayMs
                    * arg.options.backoffMultiplier ^ arg.attempt
         Factors == IF arg.options.jitter THEN 50..149 ELSE {100}
     IN /\ \E f \in Factors :
              result.value = Num(Min((base * f) \div 100,
                                     arg.options.maxDelayMs))
        /\ result.value.n <= arg.options.maxDelayMs
        /\ (/\ ~arg.options.jitter
            /\ arg.options.initialDelayMs = 1000
            /\ arg.options.backoffMultiplier = 2
            /\ arg.options.maxDelayMs = 30000)
             => result.value = Num(Min(1000 * 2 ^ arg.attempt, 30000))

\* a jittered delay above the unjittered one and below maxDelayMs
C22_Witness ==
  /\ result.done
  /\ ~HasHint(arg.error)
  /\ arg.options.jitter
  /\ arg.attempt = 2
  /\ result.value.n > arg.options.initialDelayMs
                         * arg.options.backoffMultiplier ^ arg.attempt
  /\ result.value.n < arg.options.maxDelayMs

\* ------------------------------------------ claims: errors from responses
AllDigits(cs) == cs # <<>> /\ \A i \in 1..Len(cs) : IsDigit(cs[i])

\* the decimal value of a sequence of digits
RECURSIVE Decimal(_)
Decimal(cs) ==
  IF cs = <<>> THEN 0
  ELSE Decimal(SubSeq(cs, 1, Len(cs) - 1)) * 10 + DigitValue(cs[Len(cs)])

\* C23: for every 429 response the error has code rate_limit and a numeric
\* retryAfter: the value of the Retry-After header when it parses as a
\* number of seconds, and 60 when the header is absent or unparseable, with
\* or without a JSON body; the retry wait after a 429 is therefore
\* min(retryAfter * 1000 + 100, maxDelayMs).
C23_RetryAfterOr60 ==
  (result.done /\ arg.status = 429) =>
     LET e == result.value
         header == IF "Retry-After" \in DOMAIN arg.headers
                   THEN arg.headers["Retry-After"] ELSE <<>>
         s == SkipSpaces(header)
     IN /\ e.code = "rate_limit"
        /\ ~IsNaN(e.retryAfter) /\ e.retryAfter # Undef
        /\ AllDigits(s) => e.retryAfter = Num(Decimal(s))
        /\ (s = <<>> \/ ~(IsDigit(Head(s)) \/ Head(s) \in {"-", "+"}))
              => e.retryAfter = Num(60)
        /\ \A opts \in DelayOptions, att \in 0..MaxAttemptArg :
              calculateRetryDelay(att, opts, e, 0) =
                 MathMin(Plus(Times(e.retryAfter, 1000), 100),
                         Num(opts.maxDelayMs))

C25_RateLimitInfoStored ==
  /\ lastRateLimitInfo = Undef
  /\ [][IF apc = "fetching" /\ apc' \in {"readingBody", "readingError"}
        THEN LET hs == received'.headers
                 Fields == {<<"X-RateLimit-Limit", "limit">>,
                            <<"X-RateLimit-Remaining", "remaining">>,
                            <<"X-RateLimit-Reset", "reset">>,
                            <<"X-RateLimit-Daily-Limit", "dailyLimit">>,
                            <<"X-RateLimit-Daily-Remaining",
                              "dailyRemaining">>,
                            <<"X-RateLimit-Daily-Reset", "dailyReset">>}
                 Present == {f \in Fields : f[1] \in DOMAIN hs}
             IN IF {"X-RateLimit-Limit", "X-RateLimit-Remaining",
                    "X-RateLimit-Reset"} \subseteq DOMAIN hs
                THEN /\ DOMAIN lastRateLimitInfo' = {f[2] : f \in Present}
                     /\ \A f \in Present :
                           lastRateLimitInfo'[f[2]] = Num(Decimal(hs[f[1]]))
                ELSE lastRateLimitInfo' = lastRateLimitInfo
        ELSE lastRateLimitInfo' = lastRateLimitInfo]_vars

\* a 500 response with the three headers has replaced an info that had daily
\* fields by one that has none
C25_Witness ==
  /\ apc = "readingError"
  /\ received.status = 500
  /\ requests = 2
  /\ lastRateLimitInfo = [limit |-> Num(9), remaining |-> Num(9),
                          reset |-> Num(9)]

\* C26: in one attempt, if the deadline timer fires before the transport
\* call, reading the body included, has completed, the attempt fails with a
\* LuziaError of code timeout whose timeoutMs is the configured timeout; on
\* every completion path the deadline timer is no longer pending when the
\* attempt returns.
C26_DeadlineGivesTimeout ==
  [][/\ (deadline = "pending" /\ deadline' = "fired") =>
          /\ attemptResult'.done
          /\ ~attemptResult'.value.ok
          /\ attemptResult'.value.error.kind = "LuziaError"
          /\ attemptResult'.value.error.code = "timeout"
          /\ attemptResult'.value.error.timeoutMs = Num(timeout)
     /\ attemptResult'.done => deadline' # "pending"]_vars

\* ------------------------------------------- claims: status classification
\* C40: for every HTTP status s, isRetryableStatus(s) gives the same verdict
\* as isRetryableError applied to a LuziaError with code unknown and
\* status s.
C40_SameVerdict ==
  result.done => result.value.byStatus = result.value.byError

\* ------------------------------------------------- claims: symbol formats
Count(cs, c) == Cardinality({i \in 1..Len(cs) : cs[i] = c})

\* C32: symbolToUrl(symbolFromUrl(s)) = s for every s with exactly one dash
\* and no slash, and symbolFromUrl(symbolToUrl(t)) = t for every t with
\* exactly one slash and no dash.
C32_RoundTrip ==
  /\ (/\ result.calls = <<"symbolFromUrl", "symbolToUrl">>
      /\ Count(arg, "-") = 1
      /\ Count(arg, "/") = 0) => result.value = arg
  /\ (/\ result.calls = <<"symbolToUrl", "symbolFromUrl">>
      /\ Count(arg, "/") = 1
      /\ Count(arg, "-") = 0) => result.value = arg

\* B/T has been written as B-T and read back
C32_Witness ==
  /\ arg = <<"B", "/", "T">>
  /\ result.calls = <<"symbolToUrl", "symbolFromUrl">>
  /\ result.value = arg

\* ---------------------------------------- claims: retries and their options
\* C39: withRetry invokes the operation at least once and rejects only with
\* a value the operation threw, for every options value a caller can pass,
\* maxRetries below 0 included; an option passed explicitly as undefined
\* falls back to the default.
C39_AtLeastOnce ==
  /\ pc = "done" =>
        /\ calls >= 1
        /\ outcome.kind = "rejected" => outcome.error \in SeqToSet(thrown)
  /\ (/\ pc \notin {"idle", "start"}
      /\ "maxRetries" \in DOMAIN retryOptions
      /\ retryOptions.maxRetries = Undef)
        => resolvedOptions.maxRetries = DEFAULT_RETRY_OPTIONS.maxRetries

\* C38: within one request() call, a transport call that completed with a
\* 2xx status is never followed by another transport call, also when the
\* body of the 2xx response could not be read or parsed.
C38_NoRetryAfter2xx ==
  mode = "request" =>
     \A i \in 1..Len(transported) :
        transported[i] \in 200..299 => calls = i

\* ------------------------------------------------ claims: reconnect delay
\* C31: the delay a reconnect timer is scheduled with, and the delayMs of
\* the `reconnecting` event, never exceed maxReconnectDelayMs.
C31_DelayWithinMax ==
  result.done =>
     /\ result.value.timerDelay <= arg.options.maxReconnectDelayMs * 100
     /\ result.value.delayMs <= arg.options.maxReconnectDelayMs

C35_NeverStuck ==
  state \in {"connecting", "reconnecting"} =>
    \/ ws = "opening"
    \/ stale.opening > 0
    \/ PendingTimers(Cur) > 0

C37_UnsubscribedStaysOut == activeSubscriptions \cap (requested \ wanted) = {}

\* C34: for each handshake, every channel is named in at most one subscribe
\* request sent in consequence of it, also when a `connected` listener itself
\* calls subscribe() for the channel.
C34_OneRequestPerChannel ==
  [][last' = "connected" =>
       \A c \in Channels :
         Cardinality({i \in SubscribeRequests(sent') :
                        c \in SeqToSet(sent'[i].channels)}) <= 1]_vars

====
